---- MODULE Spec2Model ----
(***************************************************************************)
(* A model of the todo service of src/main.py: the todos collection, the   *)
(* Prometheus registry (counters, gauge, histogram) and the request        *)
(* handlers, each translated from its code.  Storage calls may fail        *)
(* (PyMongoError); `fails` names the call sites that fail in a request.    *)
(***************************************************************************)
EXTENDS Integers, Sequences, FiniteSets, TLC

VARIABLES
    collection,            \* todos_collection: the documents, in insertion order
    next_oid,              \* the driver's ObjectId counter
    todos_created,         \* Counter todos_created_total
    todos_deleted,         \* Counter todos_deleted_total
    todos_completed,       \* Counter todos_completed_total
    active_todos,          \* Gauge active_todos_count
    db_errors,             \* Counter db_errors_total, by operation label
    mongo_connections,     \* Gauge mongo_connections_active
    http_request_duration, \* Histogram: the observations, by their labels
    phase,                 \* "init" | "running" | "failed" | "stopped"
    request,               \* the last request handled
    response,              \* its response
    storage_calls,         \* the storage call sites it issued, in order
    storage_failed,        \* those of them that raised PyMongoError
    nreq,                  \* requests completed so far
    inflight,              \* handlers suspended at their await (SpecAwait only)
    interleaved            \* history: a handler committed while another was suspended

vars == <<collection, next_oid, todos_created, todos_deleted, todos_completed,
          active_todos, db_errors, mongo_connections, http_request_duration,
          phase, request, response, storage_calls, storage_failed, nreq,
          inflight, interleaved>>

----------------------------------------------------------------------------
\* Bounds of the model.
MaxReq == 2
MaxOid == 1
MaxInflight == 2

\* Length of an ObjectId's hex string, and of its bytes.
OidLen == 24
OidBytes == 12

----------------------------------------------------------------------------
\* Optional values: None, or a one-element sequence.
None == <<>>
Some(v) == <<v>>

HexLower == <<"0","1","2","3","4","5","6","7","8","9","a","b","c","d","e","f">>

\* The value of a hexadecimal character, either case.
HexDigit ==
    [c \in {HexLower[k] : k \in 1..16} |-> (CHOOSE k \in 1..16 : HexLower[k] = c) - 1]
    @@ ("A" :> 10) @@ ("B" :> 11) @@ ("C" :> 12) @@ ("D" :> 13) @@ ("E" :> 14)
    @@ ("F" :> 15)

IsHex(c) == c \in DOMAIN HexDigit

HexVal(c) == HexDigit[c]

\* A validity check that forgets the length.
ObjectId_is_valid_anylen(todo_id) ==
    \A i \in 1..Len(todo_id) : IsHex(todo_id[i])

\* ObjectId.is_valid on a str: 24 characters, all hexadecimal.
ObjectId_is_valid(todo_id) ==
    /\ Len(todo_id) = OidLen
    /\ \A i \in 1..OidLen : IsHex(todo_id[i])

\* ObjectId(todo_id) for a valid todo_id: bytes.fromhex, two characters a byte.
ObjectId(todo_id) ==
    [b \in 1..(Len(todo_id) \div 2) |->
        16 * HexVal(todo_id[2*b - 1]) + HexVal(todo_id[2*b])]

\* str(oid): the lower-case hex of the bytes.
str(oid) ==
    [i \in 1..(2 * Len(oid)) |->
        IF i % 2 = 1 THEN HexLower[(oid[(i + 1) \div 2] \div 16) + 1]
                     ELSE HexLower[(oid[i \div 2] % 16) + 1]]

\* The n-th ObjectId the driver generates on insert_one: distinct for distinct n.
NewObjectId(n) == [b \in 1..OidBytes |-> IF b = OidBytes THEN 160 + n ELSE 0]

----------------------------------------------------------------------------
\* The storage gateway (pymongo's collection methods, as main.py calls them).

Operations == {"find", "create", "update", "delete", "count"}

\* Record a storage call at call site `site`; it raises when site \in fails.
db_call(S, site, fails) ==
    [S EXCEPT !.calls = Append(@, site),
              !.failed = IF site \in fails THEN @ \cup {site} ELSE @]

find_one(coll, oid) ==
    LET hits == SelectSeq(coll, LAMBDA d : d.oid = oid)
    IN IF hits = <<>> THEN None ELSE Some(hits[1])

count_documents(coll, completed) ==
    Len(SelectSeq(coll, LAMBDA d : d.completed = completed))

insert_one(coll, oid, todo_dict) ==
    Append(coll, [oid |-> oid, title |-> todo_dict.title,
                  description |-> todo_dict.description,
                  completed |-> todo_dict.completed])

\* An update that replaces the document instead of setting the given keys.
update_one_replace(coll, oid, update_dict) ==
    [i \in 1..Len(coll) |->
        IF coll[i].oid # oid THEN coll[i]
        ELSE [oid |-> coll[i].oid,
              title |-> IF "title" \in DOMAIN update_dict
                        THEN update_dict["title"] ELSE "",
              description |-> IF "description" \in DOMAIN update_dict
                              THEN Some(update_dict["description"]) ELSE None,
              completed |-> IF "completed" \in DOMAIN update_dict
                            THEN update_dict["completed"] ELSE FALSE]]

\* update_one(filter by _id, {"$set": update_dict}): only the keys of update_dict.
update_one(coll, oid, update_dict) ==
    [i \in 1..Len(coll) |->
        IF coll[i].oid # oid THEN coll[i]
        ELSE [oid |-> coll[i].oid,
              title |-> IF "title" \in DOMAIN update_dict
                        THEN update_dict["title"] ELSE coll[i].title,
              description |-> IF "description" \in DOMAIN update_dict
                              THEN Some(update_dict["description"])
                              ELSE coll[i].description,
              completed |-> IF "completed" \in DOMAIN update_dict
                            THEN update_dict["completed"] ELSE coll[i].completed]]

delete_one(coll, oid) == SelectSeq(coll, LAMBDA d : d.oid # oid)

deleted_count(coll, oid) == IF find_one(coll, oid) = None THEN 0 ELSE 1

----------------------------------------------------------------------------
\* Helpers of main.py.

inc_db_errors(S, operation) == [S EXCEPT !.db_errors[operation] = @ + 1]

\* A gauge update whose count query has no filter.
update_active_todos_count_nofilter(S, fails) ==
    LET S1 == db_call(S, "count_documents@115", fails)
    IN IF "count_documents@115" \in fails
       THEN inc_db_errors(S1, "count")
       ELSE [S1 EXCEPT !.active_todos = Len(S1.collection)]

update_active_todos_count(S, fails) ==
    LET S1 == db_call(S, "count_documents@115", fails)
    IN IF "count_documents@115" \in fails
       THEN inc_db_errors(S1, "count")
       ELSE [S1 EXCEPT !.active_todos = count_documents(S1.collection, FALSE)]

serialize_todo(todo) ==
    [id |-> str(todo.oid),
     title |-> todo.title,
     description |-> todo.description,
     completed |-> IF "completed" \in DOMAIN todo THEN todo.completed ELSE FALSE,
     createdAt |-> IF "createdAt" \in DOMAIN todo THEN todo.createdAt ELSE ""]

\* The decorator's wrapper: one observation, labelled 200 or 500 whatever
\* status_code it was given.  No route of main.py is decorated with it.
track_request_time(histogram, method, endpoint, status_code, raised) ==
    Append(histogram, [method |-> method, endpoint |-> endpoint,
                       status_code |-> IF raised THEN 500 ELSE 200])

\* What a handler hands back: done or suspended at its await, the state it
\* leaves, and (done) its response or (suspended) what it will return.
Reply(S, status_code, todos, detail) ==
    [done |-> TRUE, S |-> S, status |-> status_code, todos |-> todos,
     detail |-> detail, oid |-> None]

Suspend(S, todos, oid) ==
    [done |-> FALSE, S |-> S, status |-> 0, todos |-> todos,
     detail |-> "", oid |-> oid]

----------------------------------------------------------------------------
\* Pydantic models.

\* TodoCreate of a JSON body with a title: description defaults to None,
\* completed to False.
TodoCreate(json) ==
    [title |-> json.title[1],
     description |-> json.description,
     completed |-> IF json.completed = None THEN FALSE ELSE json.completed[1]]

\* TodoUpdate(...).dict(): the three keys, None where the body has none.
TodoUpdate(json) ==
    [title |-> json.title, description |-> json.description,
     completed |-> json.completed]

----------------------------------------------------------------------------
\* Routes.

\* get_todos, lines 193-194: every document, serialized.
list_todos(coll) == [i \in 1..Len(coll) |-> serialize_todo(coll[i])]

get_todos(S, fails) ==
    LET S1 == db_call(S, "find@193", fails)
    IN IF "find@193" \in fails
       THEN Reply(inc_db_errors(S1, "find"), 500, <<>>, "Failed to fetch todos")
       ELSE Reply(S1, 200, list_todos(S1.collection), "")

\* A document that keeps the body's completed flag.
create_todo_dict_keep(todo) ==
    [title |-> todo.title, description |-> todo.description,
     completed |-> todo.completed]

\* create_todo, lines 208-209: the document to insert.
create_todo_dict(todo) ==
    [title |-> todo.title, description |-> todo.description, completed |-> FALSE]

\* An except clause that counts the error under the label of the call.
create_todo_except_find(S) ==
    Reply(inc_db_errors(S, "find"), 500, <<>>, "Failed to create todo")

\* create_todo's except clause.
create_todo_except(S) ==
    Reply(inc_db_errors(S, "create"), 500, <<>>, "Failed to create todo")

\* create_todo up to its await: insert_one and todos_created.inc().
create_todo_begin(S, todo, fails) ==
    LET todo_dict == create_todo_dict(todo)
        S1 == db_call(S, "insert_one@211", fails)
        inserted_id == NewObjectId(S1.next_oid)
    IN IF "insert_one@211" \in fails
       THEN create_todo_except(S1)
       ELSE Suspend([S1 EXCEPT !.collection = insert_one(@, inserted_id, todo_dict),
                               !.next_oid = @ + 1,
                               !.todos_created = @ + 1],
                    <<>>, Some(inserted_id))

\* create_todo from its await: the gauge, find_one, the response.  A document
\* that is gone makes serialize_todo(None) raise TypeError, which no clause
\* catches: the server answers 500.
create_todo_resume(S, inserted_id, fails) ==
    LET S1 == update_active_todos_count(S, fails)
        S2 == db_call(S1, "find_one@215", fails)
        created_todo == find_one(S2.collection, inserted_id)
    IN IF "find_one@215" \in fails THEN create_todo_except(S2)
       ELSE IF created_todo = None
            THEN Reply(S2, 500, <<>>, "Internal Server Error")
            ELSE Reply(S2, 201, <<serialize_todo(created_todo[1])>>, "")

create_todo(S, todo, fails) ==
    LET r == create_todo_begin(S, todo, fails)
    IN IF r.done THEN r ELSE create_todo_resume(r.S, r.oid[1], fails)

\* update_todo's except clauses: PyMongoError first, then every other
\* Exception, the HTTPException raised inside the try block included.
update_todo_except(S, exc) ==
    IF exc = "PyMongoError"
    THEN Reply(inc_db_errors(S, "update"), 500, <<>>, "Failed to update todo")
    ELSE Reply(S, 400, <<>>, "Invalid todo ID")

\* update_todo, line 238: the keys whose value is not None.
update_todo_dict(todo_update) ==
    [k \in {f \in {"title", "description", "completed"} : todo_update[f] # None}
        |-> todo_update[k][1]]

\* update_todo, line 244: whether this update counts as a completion.
update_todo_completes(update_dict, existing_todo) ==
    /\ "completed" \in DOMAIN update_dict
    /\ update_dict["completed"]
    /\ ~(IF "completed" \in DOMAIN existing_todo
         THEN existing_todo.completed ELSE FALSE)

\* update_todo up to its await.
update_todo_begin(S, todo_id, todo_update, fails) ==
    IF ~ObjectId_is_valid(todo_id) THEN update_todo_except(S, "InvalidId")
    ELSE
    LET oid == ObjectId(todo_id)
        S1 == db_call(S, "find_one@231", fails)
        existing_todo == find_one(S1.collection, oid)
        update_dict == update_todo_dict(todo_update)
        S2 == IF update_todo_completes(update_dict, existing_todo[1])
              THEN [S1 EXCEPT !.todos_completed = @ + 1] ELSE S1
        S3 == db_call(S2, "update_one@247", fails)
        S4 == [S3 EXCEPT !.collection = update_one(@, oid, update_dict)]
        S5 == db_call(S4, "find_one@249", fails)
        updated_todo == find_one(S5.collection, oid)
    IN IF "find_one@231" \in fails THEN update_todo_except(S1, "PyMongoError")
       ELSE IF existing_todo = None THEN update_todo_except(S1, "HTTPException(404)")
       ELSE IF DOMAIN update_dict = {}
            THEN Reply(S1, 200, <<serialize_todo(existing_todo[1])>>, "")
       ELSE IF "update_one@247" \in fails THEN update_todo_except(S3, "PyMongoError")
       ELSE IF "find_one@249" \in fails THEN update_todo_except(S5, "PyMongoError")
       ELSE Suspend(S5, <<serialize_todo(updated_todo[1])>>, Some(oid))

\* update_todo from its await: the gauge, the response.
update_todo_resume(S, todos, fails) ==
    Reply(update_active_todos_count(S, fails), 200, todos, "")

update_todo(S, todo_id, todo_update, fails) ==
    LET r == update_todo_begin(S, todo_id, todo_update, fails)
    IN IF r.done THEN r ELSE update_todo_resume(r.S, r.todos, fails)

\* delete_todo's except clauses, as update_todo's.
delete_todo_except(S, exc) ==
    IF exc = "PyMongoError"
    THEN Reply(inc_db_errors(S, "delete"), 500, <<>>, "Failed to delete todo")
    ELSE Reply(S, 400, <<>>, "Invalid todo ID")

\* delete_todo up to its await.
delete_todo_begin(S, todo_id, fails) ==
    IF ~ObjectId_is_valid(todo_id) THEN delete_todo_except(S, "InvalidId")
    ELSE
    LET oid == ObjectId(todo_id)
        S1 == db_call(S, "delete_one@271", fails)
        S2 == [S1 EXCEPT !.collection = delete_one(@, oid)]
    IN IF "delete_one@271" \in fails THEN delete_todo_except(S1, "PyMongoError")
       ELSE IF deleted_count(S1.collection, oid) = 0
            THEN delete_todo_except(S2, "HTTPException(404)")
       ELSE Suspend([S2 EXCEPT !.todos_deleted = @ + 1], <<>>, Some(oid))

\* A delete_todo that leaves the gauge alone.
delete_todo_resume_nogauge(S, fails) ==
    Reply(S, 200, <<>>, "Todo deleted")

\* delete_todo from its await: the gauge, the response.
delete_todo_resume(S, fails) ==
    Reply(update_active_todos_count(S, fails), 200, <<>>, "Todo deleted")

delete_todo(S, todo_id, fails) ==
    LET r == delete_todo_begin(S, todo_id, fails)
    IN IF r.done THEN r ELSE delete_todo_resume(r.S, fails)

----------------------------------------------------------------------------
\* Inputs.

Titles == {"a", "b"}
Descriptions == {"d"}
Opt(V) == {None} \cup {Some(v) : v \in V}

\* JSON bodies: each field absent/null (None) or given.
Bodies == [title : Opt(Titles), description : Opt(Descriptions),
           completed : Opt(BOOLEAN)]
NoBody == [title |-> None, description |-> None, completed |-> None]

\* The bodies sent to PUT: as above, with one new title.
UpdateBodies == {json \in Bodies : json.title # Some("a")}

Zeros(n) == [i \in 1..n |-> "0"]

\* Path parameters: the ids the service hands out, a well-formed id it never
\* hands out, and two malformed ones (one not hexadecimal, one hexadecimal
\* but short).
AbsentId == Zeros(OidLen)
NotAnId == <<"n","o","t","-","a","n","-","i","d">>
ShortId == <<"1", "2", "3", "4">>
IssuedIds == {str(NewObjectId(n)) : n \in 0..MaxOid}
PathIds == IssuedIds \cup {AbsentId, NotAnId, ShortId}

\* What the database holds when the process starts.
Stored(n, title, description, completed) ==
    [oid |-> NewObjectId(n), title |-> title, description |-> description,
     completed |-> completed]
InitialCollections ==
    {<<>>, <<Stored(0, "a", None, FALSE)>>, <<Stored(0, "a", Some("d"), TRUE)>>}

\* Which storage calls of one request fail: every outcome a handler can have.
FailsFind == {{}, {"find@193"}}
FailsCreate == {{}, {"insert_one@211"}, {"count_documents@115"}, {"find_one@215"},
                {"count_documents@115", "find_one@215"}}
FailsUpdate == {{}, {"find_one@231"}, {"update_one@247"}, {"find_one@249"},
                {"count_documents@115"}}
FailsDelete == {{}, {"delete_one@271"}, {"count_documents@115"}}
FailsPing == {{}, {"ping"}}
FailsCount == {{}, {"count_documents@115"}}
NoFails == {{}}

----------------------------------------------------------------------------
\* The program state a handler reads and writes, with the trace of the
\* storage calls of the request being handled.
StateOf(calls, failed) ==
    [collection |-> collection, next_oid |-> next_oid,
     todos_created |-> todos_created, todos_deleted |-> todos_deleted,
     todos_completed |-> todos_completed, active_todos |-> active_todos,
     db_errors |-> db_errors, calls |-> calls, failed |-> failed]

Fresh == StateOf(<<>>, {})

Install(S) ==
    /\ collection' = S.collection
    /\ next_oid' = S.next_oid
    /\ todos_created' = S.todos_created
    /\ todos_deleted' = S.todos_deleted
    /\ todos_completed' = S.todos_completed
    /\ active_todos' = S.active_todos
    /\ db_errors' = S.db_errors

Registry ==
    [http_request_duration_count |-> Len(http_request_duration),
     todos_created_total |-> todos_created,
     todos_deleted_total |-> todos_deleted,
     todos_completed_total |-> todos_completed,
     active_todos_count |-> active_todos,
     db_errors_total |-> db_errors,
     mongo_connections_active |-> mongo_connections]

\* The response to a request goes out: r is the handler's reply.
Respond(method, endpoint, todo_id, json, r, metrics_text) ==
    /\ Install(r.S)
    /\ request' = [method |-> method, endpoint |-> endpoint,
                   todo_id |-> todo_id, json |-> json]
    /\ response' = [status |-> r.status, todos |-> r.todos, detail |-> r.detail,
                    metrics |-> metrics_text]
    /\ storage_calls' = r.S.calls
    /\ storage_failed' = r.S.failed
    /\ nreq' = nreq + 1
    /\ UNCHANGED <<mongo_connections, http_request_duration, phase>>

Serving == phase = "running" /\ nreq + Len(inflight) < MaxReq

----------------------------------------------------------------------------
\* The lifespan.

Init ==
    /\ collection \in InitialCollections
    /\ next_oid = 1
    /\ todos_created = 0
    /\ todos_deleted = 0
    /\ todos_completed = 0
    /\ active_todos = 0
    /\ db_errors = [op \in Operations |-> 0]
    /\ mongo_connections = 0
    /\ http_request_duration = <<>>
    /\ phase = "init"
    /\ request = [method |-> "", endpoint |-> "", todo_id |-> <<>>, json |-> NoBody]
    /\ response = [status |-> 0, todos |-> <<>>, detail |-> "", metrics |-> None]
    /\ storage_calls = <<>>
    /\ storage_failed = {}
    /\ nreq = 0
    /\ inflight = <<>>
    /\ interleaved = FALSE

\* lifespan, startup: ping, then the gauge; a failed ping aborts the startup.
\* pings and counts are the outcomes the two calls may have.
Startup(pings, counts) ==
    /\ phase = "init"
    /\ \E ping \in pings, fails \in counts :
        IF ping # {}
        THEN /\ mongo_connections' = 0
             /\ phase' = "failed"
             /\ UNCHANGED <<collection, next_oid, todos_created, todos_deleted,
                            todos_completed, active_todos, db_errors>>
        ELSE /\ mongo_connections' = 1
             /\ phase' = "running"
             /\ Install(update_active_todos_count(Fresh, fails))
    /\ UNCHANGED <<http_request_duration, request, response, storage_calls,
                   storage_failed, nreq, inflight, interleaved>>

lifespan_startup == Startup(FailsPing, FailsCount)

\* lifespan, shutdown.
lifespan_shutdown ==
    /\ phase = "running"
    /\ inflight = <<>>
    /\ phase' = "stopped"
    /\ mongo_connections' = 0
    /\ UNCHANGED <<collection, next_oid, todos_created, todos_deleted,
                   todos_completed, active_todos, db_errors,
                   http_request_duration, request, response, storage_calls,
                   storage_failed, nreq, inflight, interleaved>>

----------------------------------------------------------------------------
\* One request, handled from start to response: a handler of main.py is a
\* coroutine whose storage calls block, and the coroutine it awaits never
\* suspends, so the event loop runs it to its end.

HealthCheck ==
    /\ Serving
    /\ Respond("GET", "/health", <<>>, NoBody, Reply(Fresh, 200, <<>>, "ok"), None)
    /\ UNCHANGED <<inflight, interleaved>>

Live ==
    /\ Serving
    /\ Respond("GET", "/live", <<>>, NoBody, Reply(Fresh, 200, <<>>, "alive"), None)
    /\ UNCHANGED <<inflight, interleaved>>

Ready ==
    /\ Serving
    /\ \E ping \in FailsPing :
        Respond("GET", "/ready", <<>>, NoBody,
                IF ping # {} THEN Reply(Fresh, 503, <<>>, "MongoDB not ready")
                             ELSE Reply(Fresh, 200, <<>>, "ready"),
                None)
    /\ UNCHANGED <<inflight, interleaved>>

Metrics ==
    /\ Serving
    /\ Respond("GET", "/metrics", <<>>, NoBody,
               Reply(Fresh, 200, <<>>, "text/plain; charset=utf-8"), Some(Registry))
    /\ UNCHANGED <<inflight, interleaved>>

GetTodos ==
    /\ Serving
    /\ \E fails \in FailsFind :
        LET r == get_todos(Fresh, fails)
        IN Respond("GET", "/todos", <<>>, NoBody, r, None)
    /\ UNCHANGED <<inflight, interleaved>>

\* A body without a title is rejected by the TodoCreate model (422) before
\* create_todo runs.
CreateTodo ==
    /\ Serving
    /\ next_oid <= MaxOid
    /\ \E json \in Bodies, fails \in FailsCreate :
        LET r == IF json.title = None
                 THEN Reply(Fresh, 422, <<>>, "field required")
                 ELSE create_todo(Fresh, TodoCreate(json), fails)
        IN Respond("POST", "/todos", <<>>, json, r, None)
    /\ UNCHANGED <<inflight, interleaved>>

UpdateTodo ==
    /\ Serving
    /\ \E todo_id \in PathIds, json \in UpdateBodies, fails \in FailsUpdate :
        LET r == update_todo(Fresh, todo_id, TodoUpdate(json), fails)
        IN Respond("PUT", "/todos/{todo_id}", todo_id, json, r, None)
    /\ UNCHANGED <<inflight, interleaved>>

DeleteTodo ==
    /\ Serving
    /\ \E todo_id \in PathIds, fails \in FailsDelete :
        LET r == delete_todo(Fresh, todo_id, fails)
        IN Respond("DELETE", "/todos/{todo_id}", todo_id, NoBody, r, None)
    /\ UNCHANGED <<inflight, interleaved>>

Next ==
    \/ lifespan_startup
    \/ lifespan_shutdown
    \/ HealthCheck
    \/ Live
    \/ Ready
    \/ Metrics
    \/ GetTodos
    \/ CreateTodo
    \/ UpdateTodo
    \/ DeleteTodo

Spec == Init /\ [][Next]_vars

----------------------------------------------------------------------------
\* The same handlers, no storage call failing, with their await (lines 213,
\* 250, 279) taken as a point where the event loop may run other handlers: a
\* mutating handler commits, is suspended, and later resumes with
\* update_active_todos_count, whose count and set run without a suspension
\* between them.

\* The handler of a request ran up to its await with result r.
Begun(method, endpoint, todo_id, json, r) ==
    IF r.done
    THEN /\ Respond(method, endpoint, todo_id, json, r, None)
         /\ UNCHANGED <<inflight, interleaved>>
    ELSE /\ Install(r.S)
         /\ inflight' = Append(inflight,
                [method |-> method, endpoint |-> endpoint, todo_id |-> todo_id,
                 json |-> json, todos |-> r.todos, oid |-> r.oid,
                 calls |-> r.S.calls])
         /\ interleaved' = (interleaved \/ inflight # <<>>)
         /\ UNCHANGED <<mongo_connections, http_request_duration, phase,
                        request, response, storage_calls, storage_failed, nreq>>

Admitting == Serving /\ Len(inflight) < MaxInflight

StartupOk == Startup(NoFails, NoFails)

BeginCreate ==
    /\ Admitting
    /\ next_oid <= MaxOid
    /\ \E json \in Bodies :
        LET r == IF json.title = None
                 THEN Reply(Fresh, 422, <<>>, "field required")
                 ELSE create_todo_begin(Fresh, TodoCreate(json), {})
        IN Begun("POST", "/todos", <<>>, json, r)

BeginUpdate ==
    /\ Admitting
    /\ \E todo_id \in PathIds, json \in UpdateBodies :
        LET r == update_todo_begin(Fresh, todo_id, TodoUpdate(json), {})
        IN Begun("PUT", "/todos/{todo_id}", todo_id, json, r)

BeginDelete ==
    /\ Admitting
    /\ \E todo_id \in PathIds :
        LET r == delete_todo_begin(Fresh, todo_id, {})
        IN Begun("DELETE", "/todos/{todo_id}", todo_id, NoBody, r)

Resume ==
    /\ phase = "running"
    /\ \E i \in 1..Len(inflight) :
        LET p == inflight[i]
            S == StateOf(p.calls, {})
            r == IF p.method = "POST"
                 THEN create_todo_resume(S, p.oid[1], {})
                 ELSE IF p.method = "PUT"
                      THEN update_todo_resume(S, p.todos, {})
                      ELSE delete_todo_resume(S, {})
        IN /\ Respond(p.method, p.endpoint, p.todo_id, p.json, r, None)
           /\ inflight' = SubSeq(inflight, 1, i - 1)
                          \o SubSeq(inflight, i + 1, Len(inflight))
    /\ UNCHANGED interleaved

NextAwait ==
    \/ StartupOk
    \/ BeginCreate
    \/ BeginUpdate
    \/ BeginDelete
    \/ Resume

SpecAwait == Init /\ [][NextAwait]_vars

----------------------------------------------------------------------------
\* Properties.

\* This step sends the response to a request.
Answered == nreq' = nreq + 1

TodoRoutes == {"/todos", "/todos/{todo_id}"}
Mutation == request.endpoint \in TodoRoutes /\ request.method \in {"POST", "PUT", "DELETE"}
Success == response.status \in {200, 201}
ActiveCount == count_documents(collection, FALSE)
CountSite == "count_documents@115"
Issued(site) == \E i \in 1..Len(storage_calls) : storage_calls[i] = site
Has(coll, oid) == find_one(coll, oid) # None
Doc(coll, oid) == find_one(coll, oid)[1]

\* A well-formed id: 24 hexadecimal characters.
WellFormed(id) == Len(id) = 24 /\ \A i \in 1..Len(id) : IsHex(id[i])

\* C1: a PUT or DELETE whose id is well-formed but names no item of the
\* collection is answered with 404 (no storage call of the request failing).
C1_AbsentIdIsNotFound ==
    [][(/\ Answered
        /\ request'.method \in {"PUT", "DELETE"}
        /\ WellFormed(request'.todo_id)
        /\ ~Has(collection, ObjectId(request'.todo_id))
        /\ storage_failed' = {})
       => response'.status = 404]_vars

\* C2: a PUT or DELETE whose id is malformed is answered with 400, issues no
\* storage call and leaves the collection, the lifecycle counters, the gauge
\* and db_errors as they were.
C2_MalformedIdRejected ==
    [][(/\ Answered
        /\ request'.method \in {"PUT", "DELETE"}
        /\ ~WellFormed(request'.todo_id))
       => /\ response'.status = 400
          /\ storage_calls' = <<>>
          /\ UNCHANGED <<collection, todos_created, todos_completed,
                         todos_deleted, active_todos, db_errors>>]_vars

\* C2's case: a DELETE with a malformed id (hexadecimal, but short) was
\* answered 400 while the collection held an item.
C2_Witness ==
    /\ request.method = "DELETE"
    /\ request.todo_id = ShortId
    /\ response.status = 400
    /\ collection # <<>>

\* C3: a POST answered 201 stores one new document, with the body's title,
\* completed=false whatever the body's completed field, and an id no document
\* of the collection had; on an empty collection a GET /todos then lists
\* exactly that item, as the POST returned it.
C3_CreateThenList ==
    [][(/\ Answered
        /\ request'.method = "POST"
        /\ response'.status = 201)
       => LET item == response'.todos[1]
          IN /\ Len(response'.todos) = 1
             /\ item.title = request'.json.title[1]
             /\ item.completed = FALSE
             /\ \A i \in 1..Len(collection) : str(collection[i].oid) # item.id
             /\ Len(collection') = Len(collection) + 1
             /\ list_todos(collection')[Len(collection')] = item
             /\ \A i \in 1..Len(collection) : collection'[i] = collection[i]
             /\ (collection = <<>> => list_todos(collection') = <<item>>)]_vars

\* C3's case: a POST with completed=true in its body was answered 201 on an
\* empty collection.
C3_Witness ==
    /\ request.method = "POST"
    /\ request.json.completed = Some(TRUE)
    /\ request.json.title = Some("b")
    /\ response.status = 201
    /\ Len(collection) = 1
    /\ todos_deleted = 0

\* C4: a PUT answered 200 leaves every field the body does not supply (absent
\* or null) as it was, keeps the item's id and every other item; a body that
\* supplies nothing returns the item as stored and changes neither the
\* collection nor the lifecycle counters nor the gauge.
C4_PartialUpdate ==
    [][(/\ Answered
        /\ request'.method = "PUT"
        /\ response'.status = 200)
       => LET oid == ObjectId(request'.todo_id)
              body == request'.json
          IN /\ Has(collection, oid) /\ Has(collection', oid)
             /\ Len(collection') = Len(collection)
             /\ \A i \in 1..Len(collection) :
                    /\ collection'[i].oid = collection[i].oid
                    /\ collection[i].oid # oid => collection'[i] = collection[i]
             /\ body.title = None =>
                    Doc(collection', oid).title = Doc(collection, oid).title
             /\ body.description = None =>
                    Doc(collection', oid).description = Doc(collection, oid).description
             /\ body.completed = None =>
                    Doc(collection', oid).completed = Doc(collection, oid).completed
             /\ body = NoBody =>
                    /\ response'.todos = <<serialize_todo(Doc(collection, oid))>>
                    /\ UNCHANGED <<collection, todos_created, todos_completed,
                                   todos_deleted, active_todos>>]_vars

\* C4's case: a PUT that supplies only a new title was answered 200 for an
\* item that has a description and is completed.
C4_Witness ==
    /\ request.method = "PUT"
    /\ response.status = 200
    /\ request.json = [title |-> Some("b"), description |-> None, completed |-> None]
    /\ Len(response.todos) = 1
    /\ response.todos[1].title = "b"
    /\ response.todos[1].description = Some("d")
    /\ response.todos[1].completed

C6_CompletedCountsTransitions ==
    [][todos_completed' - todos_completed =
         Cardinality({i \in 1..Len(collection) :
                         /\ ~collection[i].completed
                         /\ Has(collection', collection[i].oid)
                         /\ Doc(collection', collection[i].oid).completed})]_vars

\* The db_errors label of a storage call, by the operation that failed.
FailingOperation(site) ==
    CASE site \in {"find@193", "find_one@215", "find_one@231", "find_one@249"} -> "find"
      [] site = "insert_one@211" -> "create"
      [] site = "update_one@247" -> "update"
      [] site = "delete_one@271" -> "delete"
      [] OTHER -> "count"

\* The db_errors label a handler's except clause uses.
HandlerOperation(method) ==
    CASE method = "GET" -> "find"
      [] method = "POST" -> "create"
      [] method = "PUT" -> "update"
      [] OTHER -> "delete"

C8_HistogramObserved ==
    nreq >= 1 => Len(http_request_duration) >= 1

\* C9: an item created through POST carries a non-empty createdAt, in the
\* stored document and in the response.
C9_CreatedAtAssigned ==
    (request.method = "POST" /\ response.status = 201)
    => /\ response.todos[1].createdAt # ""
       /\ \A i \in 1..Len(collection) : "createdAt" \in DOMAIN collection[i]

\* C10: with handlers interleaving at their await and no storage call
\* failing, whenever no handler is in flight the gauge equals the number of
\* items with completed=false.
C10_GaugeAtQuiescence ==
    (phase = "running" /\ inflight = <<>>) => active_todos = ActiveCount

\* C10's case: two mutations interleaved (the second committed while the
\* first was suspended before its count), both have completed, and the
\* collection changed.
C10_Witness ==
    /\ phase = "running"
    /\ inflight = <<>>
    /\ interleaved
    /\ nreq = 2
    /\ todos_deleted = 1
    /\ todos_created = 1

====
